---- MODULE Spec2Model ----
(***************************************************************************)
(* Model of ghostwriter-cli (src/src/main.rs): the Sensor thread, the      *)
(* Processor thread (process_logs) and the UI thread's menu handlers,      *)
(* sharing the recording flag, the event channel and the mutex-guarded     *)
(* buffer, together with the session files and the temp snapshot they      *)
(* write.                                                                  *)
(*                                                                         *)
(* Time is in milliseconds.  One clock serves Utc::now() and Instant.      *)
(* A step of a thread runs up to the next point where it can block or      *)
(* where another thread can see or change what it does next: the lock      *)
(* acquisitions, the channel operations and the error dialog.  The Quit    *)
(* handler ends the process, which the model shows as stuttering; the      *)
(* Open-Folder handler touches none of the state below.                    *)
(* Ghost state (not in the program): the field id of a message or record   *)
(* (its emission number), nextId, origin, due, last_event, stop_outcome,   *)
(* dump_result, ticks.                                                     *)
(***************************************************************************)
EXTENDS Integers, Sequences, FiniteSets, TLC

\* ---------------------------------------------------------------- bounds
MaxEvents == 2
MaxTicks == 1

\* ------------------------------------------------------------- constants
BATCH_SIZE == 20
AUTO_SAVE_INTERVAL_SECS == 60
MillisPerSec == 1000
AUTO_SAVE_INTERVAL == AUTO_SAVE_INTERVAL_SECS * MillisPerSec

\* SALT = "GHOSTWRITER_SECURE_SALT_V1", as bytes
SALT == <<71, 72, 79, 83, 84, 87, 82, 73, 84, 69, 82, 95, 83, 69, 67, 85, 82,
          69, 95, 83, 65, 76, 84, 95, 86, 49>>

\* The steps by which the clock may advance: one auto-save interval
TickSteps == {AUTO_SAVE_INTERVAL}

\* rdev::EventType, by kind; the key identity is not modelled
EventKinds == {"KeyPress", "KeyRelease", "MouseMove"}

\* get_active_window(): a title, or Err
Titles == {"Editor"}
ResolveErr == "ERR"
ResolverOutcomes == Titles \cup {ResolveErr}

\* get_session_file_path_timestamped(): Ok or Err (no documents directory,
\* or create_dir_all fails)
PathOutcomes == {"ok", "err"}

\* save_signed_session / dump_to_temp: where the call stops.
\*   ok         everything written
\*   early_err  an Err before the file is touched: serde_json::to_string,
\*              File::create or OpenOptions::open fails
\*   write_err  to_writer fails after the file was created or truncated: Err
\*   flush_err  the BufWriter's buffered bytes are lost when it is dropped
\*              (drop ignores the error): the call returns Ok
SaveOutcomes == {"ok", "early_err", "write_err", "flush_err"}
\* dump_to_temp's Result is only logged: write_err stands for both ways of
\* losing the bytes after the file was truncated
DumpOutcomes == {"ok", "early_err", "write_err"}

VARIABLES
    is_recording,   \* the AtomicBool
    status,         \* text of status_item
    chan,           \* the mpsc channel, messages in flight
    buffer,         \* shared_buffer's Vec<LogEvent>
    lock,           \* holder of shared_buffer's mutex: "free" or "ui"
    ui_pc,          \* UI thread: "idle", "dialog", "lock2"
    proc_pc,        \* Processor: "recv", "push", "autosave", "exited"
    event,          \* the LogEvent the Processor has built and not yet pushed
    last_auto_save, \* process_logs' last_auto_save
    files,          \* session files: name (unix seconds) -> content
    tmp,            \* the temp snapshot file
    now,            \* the clock, ms
    sensor_alive,   \* the listen() call has not returned
    tx_alive,       \* main's own Sender, tx, has not been dropped
    nextId,         \* ghost: number of timestamps put on the channel so far
    origin,         \* ghost: per emitted id, the event kind and the flag read
    due,            \* ghost: number of key presses handled with the flag true
    last_event,     \* ghost: the last event the callback handled, and what it did
    stop_outcome,   \* ghost: what the Finalizer of the stop under way did
    dump_result,    \* ghost: what the last auto-save step did
    ticks           \* ghost: number of clock steps taken

vars == <<is_recording, status, chan, buffer, lock, ui_pc, proc_pc, event,
          last_auto_save, files, tmp, now, sensor_alive, tx_alive, nextId,
          origin, due, last_event, stop_outcome, dump_result, ticks>>

\* ---------------------------------------------------------------- values
NoEvent == [timestamp |-> -1, window_title |-> "", event_type |-> "", id |-> 0]
NoSession == [header |-> [version |-> "", algorithm |-> ""],
              payload |-> <<>>, signature |-> <<>>]
\* A file whose write stopped part-way: created or truncated, not whole.
PartialFile == [st |-> "partial", session |-> NoSession]
AbsentTmp == [st |-> "absent", data |-> <<>>]
PartialTmp == [st |-> "partial", data |-> <<>>]

\* Utc::now().timestamp_millis() and Utc::now().timestamp()
TimestampMillis(t) == t
TimestampSecs(t) == t \div MillisPerSec

\* ------------------------------------------------------- pure functions
\* The UTF-8 bytes of the strings the program writes.
Utf8(s) ==
    CASE s = "Editor" -> <<69, 100, 105, 116, 111, 114>>
      [] s = "Unknown" -> <<85, 110, 107, 110, 111, 119, 110>>
      [] s = "keypress" -> <<107, 101, 121, 112, 114, 101, 115, 115>>
      [] s = "{\"timestamp\":" ->
            <<123, 34, 116, 105, 109, 101, 115, 116, 97, 109, 112, 34, 58>>
      [] s = ",\"window_title\":\"" ->
            <<44, 34, 119, 105, 110, 100, 111, 119, 95, 116, 105, 116, 108,
              101, 34, 58, 34>>
      [] s = "\",\"event_type\":\"" ->
            <<34, 44, 34, 101, 118, 101, 110, 116, 95, 116, 121, 112, 101,
              34, 58, 34>>
      [] s = "\"}" -> <<34, 125>>
      [] s = "[" -> <<91>>
      [] s = "]" -> <<93>>
      [] s = "," -> <<44>>
      [] OTHER -> <<>>

\* serde_json's rendering of a non-negative i64: its decimal digits
RECURSIVE DecimalDigits(_)
DecimalDigits(n) ==
    IF n < 10 THEN <<48 + n>>
    ELSE Append(DecimalDigits(n \div 10), 48 + (n % 10))

\* #[derive(Serialize)] of LogEvent: the fields in declaration order (the
\* titles of the model need no JSON escape)
LogEventJson(e) ==
    Utf8("{\"timestamp\":") \o DecimalDigits(e.timestamp)
      \o Utf8(",\"window_title\":\"") \o Utf8(e.window_title)
      \o Utf8("\",\"event_type\":\"") \o Utf8(e.event_type) \o Utf8("\"}")

RECURSIVE JsonElements(_)
JsonElements(buf) ==
    IF buf = <<>> THEN <<>>
    ELSE IF Len(buf) = 1 THEN LogEventJson(buf[1])
    ELSE LogEventJson(Head(buf)) \o Utf8(",") \o JsonElements(Tail(buf))

\* serde_json::to_string(buffer): a compact JSON array
ToJsonString(buf) == Utf8("[") \o JsonElements(buf) \o Utf8("]")

\* Sha256: an order-sensitive digest of a byte string, here of two bytes (a
\* stand-in of the same shape as the 32-byte SHA-256): the sum of the bytes,
\* each weighted by its position, modulo DigestModulus, computed by halves.
DigestModulus == 2^15
RECURSIVE DigestRange(_, _, _)
DigestRange(bytes, lo, hi) ==
    IF lo > hi THEN 0
    ELSE IF lo = hi THEN (lo * bytes[lo]) % DigestModulus
    ELSE LET mid == (lo + hi) \div 2
         IN  (DigestRange(bytes, lo, mid) + DigestRange(bytes, mid + 1, hi))
                % DigestModulus
Sha256(bytes) ==
    LET h == DigestRange(bytes, 1, Len(bytes)) IN <<h \div 256, h % 256>>

\* hex::encode: two lower-case hexadecimal digits per byte
HexDigit(d) ==
    CASE d = 0 -> "0" [] d = 1 -> "1" [] d = 2 -> "2" [] d = 3 -> "3"
      [] d = 4 -> "4" [] d = 5 -> "5" [] d = 6 -> "6" [] d = 7 -> "7"
      [] d = 8 -> "8" [] d = 9 -> "9" [] d = 10 -> "a" [] d = 11 -> "b"
      [] d = 12 -> "c" [] d = 13 -> "d" [] d = 14 -> "e" [] OTHER -> "f"
RECURSIVE HexEncode(_)
HexEncode(bytes) ==
    IF bytes = <<>> THEN <<>>
    ELSE <<HexDigit(Head(bytes) \div 16), HexDigit(Head(bytes) % 16)>>
           \o HexEncode(Tail(bytes))

\* A variant of SignedSession with a fault: the salt is left out of the digest.
SignedSession_NoSalt(buf) ==
    [header |-> [version |-> "1.0", algorithm |-> "HMAC-SHA256"],
     payload |-> buf,
     signature |-> HexEncode(Sha256(ToJsonString(buf)))]

\* save_signed_session, steps 1-3: the SignedSession built from the buffer
SignedSession(buf) ==
    LET payload_json == ToJsonString(buf)
        signature == HexEncode(Sha256(payload_json \o SALT))
    IN  [header |-> [version |-> "1.0", algorithm |-> "HMAC-SHA256"],
         payload |-> buf,
         signature |-> signature]

\* save_signed_session, step 4: the files after the call, by outcome.
\* File::create truncates an existing file of that name.
save_signed_session(fs, buf, path, outcome) ==
    LET put(c) == [n \in DOMAIN fs \cup {path} |-> IF n = path THEN c ELSE fs[n]]
    IN  CASE outcome = "ok" -> put([st |-> "whole", session |-> SignedSession(buf)])
          [] outcome \in {"write_err", "flush_err"} -> put(PartialFile)
          [] OTHER -> fs
\* its Result: Err reaches the caller unless the loss happens in drop
SaveReturnsErr(outcome) == outcome \in {"early_err", "write_err"}

\* dump_to_temp: the snapshot file after the call, by outcome (truncate(true)
\* empties the file at open, then the whole buffer is written)
dump_to_temp(old, buf, outcome) ==
    CASE outcome = "ok" -> [st |-> "whole", data |-> buf]
      [] outcome = "write_err" -> PartialTmp
      [] OTHER -> old

\* --------------------------------------------------------------- initial
Init ==
    /\ is_recording = FALSE
    /\ status = "Status: Idle"
    /\ chan = <<>>
    /\ buffer = <<>>
    /\ lock = "free"
    /\ ui_pc = "idle"
    /\ proc_pc = "recv"
    /\ event = NoEvent
    /\ last_auto_save = 0
    /\ files = [n \in {} |-> PartialFile]
    /\ tmp = AbsentTmp
    /\ now = 0
    /\ sensor_alive = TRUE
    /\ tx_alive = TRUE
    /\ nextId = 0
    /\ origin = <<>>
    /\ due = 0
    /\ last_event = [kind |-> "none", rec |-> FALSE, sent |-> FALSE]
    /\ stop_outcome = "none"
    /\ dump_result = "none"
    /\ ticks = 0

\* Live Senders of the channel: tx, which main never drops (event_loop.run
\* does not return), and tx_sensor, owned by the Sensor's closure.
Senders == (IF tx_alive THEN 1 ELSE 0) + (IF sensor_alive THEN 1 ELSE 0)

\* ----------------------------------------------------------------- clock
Tick(d) ==
    /\ ticks < MaxTicks
    /\ now' = now + d
    /\ ticks' = ticks + 1
    /\ UNCHANGED <<is_recording, status, chan, buffer, lock, ui_pc, proc_pc,
                   event, last_auto_save, files, tmp, sensor_alive, tx_alive, nextId,
                   origin, due, last_event, stop_outcome, dump_result>>

\* ---------------------------------------------------------------- Sensor
\* Variants of SensorCallback with a fault: the flag is not consulted; the
\* event kind is not consulted.
SensorCallback_IgnoresFlag(ch, recording, kind, ts, id) ==
    IF kind = "KeyPress" THEN Append(ch, [ts |-> ts, id |-> id]) ELSE ch
SensorCallback_AnyKind(ch, recording, kind, ts, id) ==
    IF recording THEN Append(ch, [ts |-> ts, id |-> id]) ELSE ch

\* The channel after the listen callback has handled an event of this kind
\* with the flag as loaded: a timestamp is sent for a key press while
\* recording, nothing otherwise.
SensorCallback(ch, recording, kind, ts, id) ==
    IF recording
    THEN IF kind = "KeyPress" THEN Append(ch, [ts |-> ts, id |-> id]) ELSE ch
    ELSE ch

Sensor(kind) ==
    /\ sensor_alive
    /\ nextId < MaxEvents
    /\ chan' = SensorCallback(chan, is_recording, kind, TimestampMillis(now),
                              nextId + 1)
    /\ LET sent == Len(chan') > Len(chan)
       IN  /\ nextId' = IF sent THEN nextId + 1 ELSE nextId
           /\ origin' = IF sent
                        THEN Append(origin, [kind |-> kind, rec |-> is_recording])
                        ELSE origin
           /\ last_event' = [kind |-> kind, rec |-> is_recording, sent |-> sent]
    /\ due' = IF kind = "KeyPress" /\ is_recording THEN due + 1 ELSE due
    /\ UNCHANGED <<is_recording, status, buffer, lock, ui_pc, proc_pc, event,
                   last_auto_save, files, tmp, now, sensor_alive, tx_alive, stop_outcome, dump_result, ticks>>

\* listen() returns an error: the thread logs it and ends, dropping tx_sensor
SensorFail ==
    /\ sensor_alive
    /\ sensor_alive' = FALSE
    /\ UNCHANGED <<is_recording, status, chan, buffer, lock, ui_pc, proc_pc,
                   event, last_auto_save, files, tmp, now, tx_alive, nextId, origin, due,
                   last_event, stop_outcome, dump_result, ticks>>

\* process_logs taken on its own, under a caller that drops the Sender it
\* kept.  main is not such a caller: its tx lives until the process ends
\* (event_loop.run does not return), so this step is in no behaviour of Spec
\* or SpecCrash.
TxDrop ==
    /\ tx_alive
    /\ tx_alive' = FALSE
    /\ UNCHANGED <<is_recording, status, chan, buffer, lock, ui_pc, proc_pc,
                   event, last_auto_save, files, tmp, now, sensor_alive, nextId,
                   origin, due, last_event, stop_outcome, dump_result, ticks>>

\* ------------------------------------------------------------- UI thread
\* A variant of Start with a fault: the status text is set, the flag is not.
Start_NoStore ==
    /\ ui_pc = "idle"
    /\ status' = "Status: Recording"
    /\ UNCHANGED <<is_recording, chan, buffer, lock, ui_pc, proc_pc, event,
                   last_auto_save, files, tmp, now, sensor_alive, tx_alive, nextId,
                   origin, due, last_event, stop_outcome, dump_result, ticks>>

\* start_item: the whole handler
Start ==
    /\ ui_pc = "idle"
    /\ is_recording' = TRUE
    /\ status' = "Status: Recording"
    /\ UNCHANGED <<chan, buffer, lock, ui_pc, proc_pc, event, last_auto_save,
                   files, tmp, now, sensor_alive, tx_alive, nextId, origin, due,
                   last_event, stop_outcome, dump_result, ticks>>

\* A variant of FinalizeOutcome with a fault: an empty buffer is saved too.
FinalizeOutcome_NoSkip(buf, po, so) == IF po = "err" THEN "path_err" ELSE so

\* What the Finalizer does with the buffer it holds locked:
\*   skipped   the buffer is empty
\*   path_err  get_session_file_path_timestamped() is Err: nothing is done
\*   otherwise the outcome of save_signed_session
FinalizeOutcome(buf, po, so) ==
    IF buf = <<>> THEN "skipped"
    ELSE IF po = "err" THEN "path_err"
    ELSE so

\* The error dialog is shown exactly when save_signed_session returned Err.
ShowsDialog(fo) == fo \in SaveOutcomes /\ SaveReturnsErr(fo)

\* stop_item, through "Finalize and Seal": stores the flag, takes the lock,
\* saves a non-empty buffer, and either shows the error dialog with the lock
\* held or drops the lock.
Stop(po, so) ==
    /\ ui_pc = "idle"
    /\ lock = "free"
    /\ is_recording' = FALSE
    /\ status' = "Status: Idle"
    /\ LET fo == FinalizeOutcome(buffer, po, so)
           path == TimestampSecs(now)
       IN  /\ files' = IF fo \in SaveOutcomes
                       THEN save_signed_session(files, buffer, path, fo)
                       ELSE files
           /\ stop_outcome' = fo
           /\ IF ShowsDialog(fo)
              THEN lock' = "ui" /\ ui_pc' = "dialog"
              ELSE lock' = "free" /\ ui_pc' = "lock2"
    /\ UNCHANGED <<chan, buffer, proc_pc, event, last_auto_save, tmp, now,
                   sensor_alive, tx_alive, nextId, origin, due, last_event, dump_result,
                   ticks>>

\* show_alert() returns; drop(buffer_lock)
StopDialogDismiss ==
    /\ ui_pc = "dialog"
    /\ lock' = "free"
    /\ ui_pc' = "lock2"
    /\ UNCHANGED <<is_recording, status, chan, buffer, proc_pc, event,
                   last_auto_save, files, tmp, now, sensor_alive, tx_alive, nextId,
                   origin, due, last_event, stop_outcome, dump_result,
                   ticks>>

\* A variant of ClearedBuffer with a fault: the records are kept for a retry
\* when the save did not succeed.
ClearedBuffer_KeepOnFailure(buf, fo) ==
    IF fo \in {"ok", "skipped"} THEN <<>> ELSE buf

\* A variant of ClearedBuffer with a fault: the buffer is not cleared.
ClearedBuffer_Never(buf, fo) == buf

\* The buffer after the handler's clear(), whatever the Finalizer did
ClearedBuffer(buf, fo) == <<>>

\* shared_buffer.lock().unwrap().clear(): the second, separate critical section
StopClear ==
    /\ ui_pc = "lock2"
    /\ lock = "free"
    /\ buffer' = ClearedBuffer(buffer, stop_outcome)
    /\ ui_pc' = "idle"
    /\ stop_outcome' = "none"
    /\ UNCHANGED <<is_recording, status, chan, lock, proc_pc, event,
                   last_auto_save, files, tmp, now, sensor_alive, tx_alive, nextId,
                   origin, due, last_event, dump_result, ticks>>

\* ------------------------------------------------------------- Processor
\* A variant of MakeLogEvent with a fault: no sentinel for a resolver failure.
MakeLogEvent_RawTitle(msg, r) ==
    [timestamp |-> msg.ts, window_title |-> r, event_type |-> "keypress",
     id |-> msg.id]

\* The LogEvent built from a received timestamp and the resolver's answer
MakeLogEvent(msg, r) ==
    [timestamp |-> msg.ts,
     window_title |-> IF r = ResolveErr THEN "Unknown" ELSE r,
     event_type |-> "keypress",
     id |-> msg.id]

\* last_auto_save.elapsed() >= AUTO_SAVE_INTERVAL
AutoSaveDue == now - last_auto_save >= AUTO_SAVE_INTERVAL

\* Where the loop goes after the match: into the auto-save block when it is
\* due, back to recv_timeout otherwise
AfterMatch == IF AutoSaveDue THEN "autosave" ELSE "recv"

\* recv_timeout returns Ok(ts); the window title is resolved and the event built
ProcRecvOk(r) ==
    /\ proc_pc = "recv"
    /\ chan # <<>>
    /\ event' = MakeLogEvent(Head(chan), r)
    /\ chan' = Tail(chan)
    /\ proc_pc' = "push"
    /\ dump_result' = "none"
    /\ UNCHANGED <<is_recording, status, buffer, lock, ui_pc, last_auto_save,
                   files, tmp, now, sensor_alive, tx_alive, nextId, origin, due,
                   last_event, stop_outcome, ticks>>

\* A variant of PushEvent with a fault: the event goes to the front.
PushEvent_Front(buf, e) == <<e>> \o buf

\* The buffer after the Processor's push
PushEvent(buf, e) == Append(buf, e)

\* shared_buffer.lock(); buffer.push(event); the guard drops at the arm's end
ProcPush ==
    /\ proc_pc = "push"
    /\ lock = "free"
    /\ buffer' = PushEvent(buffer, event)
    /\ event' = NoEvent
    /\ proc_pc' = AfterMatch
    /\ UNCHANGED <<is_recording, status, chan, lock, ui_pc, last_auto_save,
                   files, tmp, now, sensor_alive, tx_alive, nextId, origin, due,
                   last_event, stop_outcome, dump_result, ticks>>

\* recv_timeout on an empty channel: Disconnected (break) once no Sender is
\* left, Timeout otherwise.  The 100 ms of the wait are Tick's to supply: the
\* model lets a Timeout come at any time the channel is empty.
ProcRecvEmpty ==
    /\ proc_pc = "recv"
    /\ chan = <<>>
    /\ proc_pc' = IF Senders = 0 THEN "exited" ELSE AfterMatch
    /\ dump_result' = "none"
    /\ UNCHANGED <<is_recording, status, chan, buffer, lock, ui_pc, event,
                   last_auto_save, files, tmp, now, sensor_alive, tx_alive, nextId,
                   origin, due, last_event, stop_outcome, ticks>>

\* A variant of AutoSaveFile with a fault: an empty buffer is dumped too.
AutoSaveFile_NoSkip(old, buf, o) == dump_to_temp(old, buf, o)

\* The snapshot file after an auto-save that found this buffer
AutoSaveFile(old, buf, o) == IF buf # <<>> THEN dump_to_temp(old, buf, o) ELSE old

\* A variant of AutoSaveBuffer with a fault: a snapshot that was written
\* empties the buffer, as a flush would.
AutoSaveBuffer_DrainsOnOk(buf, o) == IF o = "ok" THEN <<>> ELSE buf

\* The buffer after the auto-save block: the guard is not `mut`, the buffer is
\* only read
AutoSaveBuffer(buf, o) == buf

\* The auto-save block: lock, dump a non-empty buffer, reset the timer
ProcAutoSave(o) ==
    /\ proc_pc = "autosave"
    /\ lock = "free"
    /\ tmp' = AutoSaveFile(tmp, buffer, o)
    /\ buffer' = AutoSaveBuffer(buffer, o)
    /\ dump_result' = IF buffer # <<>> THEN o ELSE "skipped"
    /\ last_auto_save' = now
    /\ proc_pc' = "recv"
    /\ UNCHANGED <<is_recording, status, chan, lock, ui_pc, event,
                   files, now, sensor_alive, tx_alive, nextId, origin, due, last_event,
                   stop_outcome, ticks>>

\* ------------------------------------------------------------------ spec
Next ==
    \/ \E d \in TickSteps : Tick(d)
    \/ \E k \in EventKinds : Sensor(k)
    \/ Start
    \/ \E po \in PathOutcomes, so \in SaveOutcomes : Stop(po, so)
    \/ StopDialogDismiss
    \/ StopClear
    \/ \E r \in ResolverOutcomes : ProcRecvOk(r)
    \/ ProcPush
    \/ ProcRecvEmpty
    \/ \E o \in DumpOutcomes : ProcAutoSave(o)

Spec == Init /\ [][Next]_vars

\* The same program with a listener that may fail.  SensorFail only disables
\* Sensor, so every state of SpecCrash is a state of Spec but for
\* sensor_alive.
NextCrash == Next \/ SensorFail
SpecCrash == Init /\ [][NextCrash]_vars

\* process_logs with a channel that can disconnect: the listener may fail and
\* the other Sender may be dropped.
NextDisconnect == NextCrash \/ TxDrop
SpecDisconnect == Init /\ [][NextDisconnect]_vars

\* ================================================================ claims
\* Helpers of the claims.
Ids(seq) == {seq[i].id : i \in DOMAIN seq}
IdsInOrder(seq) == \A i, j \in DOMAIN seq : i < j => seq[i].id < seq[j].id
WholeFiles == {n \in DOMAIN files : files[n].st = "whole"}
RECURSIVE SumPayload(_)
SumPayload(S) ==
    IF S = {} THEN 0
    ELSE LET n == CHOOSE x \in S : TRUE
         IN  Len(files[n].session.payload) + SumPayload(S \ {n})
\* The number of LogEvent records in the session files on disk
PersistedCount == SumPayload(WholeFiles)
\* The ids of all records and messages anywhere in the pipeline or on disk
AllRecordIds ==
    Ids(chan) \cup (IF event = NoEvent THEN {} ELSE {event.id}) \cup Ids(buffer)
      \cup UNION {Ids(files[n].session.payload) : n \in DOMAIN files}
      \cup Ids(tmp.data)
\* The step is the stop handler's first part (Start leaves ui_pc at "idle")
StopStep == ui_pc = "idle" /\ ui_pc' # "idle"
\* The step is the end of the stop handler
StopEndStep == ui_pc = "lock2" /\ ui_pc' = "idle"

\* C1: once recording is stopped, the stop handler has returned and every
\* queued timestamp has been processed, the number of records in the session
\* files equals the number of key presses handled while recording.
C1_NoKeyPressLost ==
    (~is_recording /\ ui_pc = "idle" /\ chan = <<>> /\ proc_pc # "push")
        => PersistedCount = due

\* C2: the callback sends a timestamp exactly when the event is a key press
\* and the flag it read is true; the number sent equals the number of key
\* presses handled while recording; and every message or record in the
\* channel, the Processor's hand, the buffer, the session files and the temp
\* snapshot comes from an event handled with the flag true.
C2_OnlyWhileRecording ==
    /\ last_event.sent <=> (last_event.kind = "KeyPress" /\ last_event.rec)
    /\ nextId = due
    /\ \A id \in AllRecordIds : id \in DOMAIN origin /\ origin[id].rec

\* A key press was handled while idle and ignored, after a session was saved.
C2_Witness ==
    /\ last_event.kind = "KeyPress"
    /\ ~last_event.rec
    /\ ~last_event.sent
    /\ WholeFiles # {}

\* C3: an event of another kind than key press is never sent, whatever the
\* flag: every message ever put on the channel comes from a key press.
C3_OnlyKeyPress ==
    /\ last_event.sent => last_event.kind = "KeyPress"
    /\ \A i \in DOMAIN origin : origin[i].kind = "KeyPress"
    /\ \A i \in DOMAIN chan : chan[i].id \in DOMAIN origin

\* A mouse event was handled while recording, with a key press still queued.
C3_Witness ==
    /\ last_event.kind = "MouseMove"
    /\ last_event.rec
    /\ ~last_event.sent
    /\ chan # <<>>

\* C4: messages and records are everywhere in emission order: in the
\* channel, in the buffer, in every session file's payload and in the temp
\* snapshot; and what is further down the pipeline was emitted earlier.
C4_CaptureOrder ==
    /\ IdsInOrder(chan)
    /\ IdsInOrder(buffer)
    /\ \A n \in DOMAIN files : IdsInOrder(files[n].session.payload)
    /\ IdsInOrder(tmp.data)
    /\ \A i \in DOMAIN buffer, j \in DOMAIN chan : buffer[i].id < chan[j].id
    /\ proc_pc = "push" =>
          /\ \A i \in DOMAIN buffer : buffer[i].id < event.id
          /\ \A j \in DOMAIN chan : event.id < chan[j].id

\* A session file and the temp snapshot each hold two records.
C4_Witness ==
    /\ \E n \in WholeFiles : Len(files[n].session.payload) >= 2
    /\ tmp.st = "whole"
    /\ Len(tmp.data) >= 2

\* C5: a session file, once written, is never overwritten: every later stop
\* writes under another name.
C5_NeverOverwritten ==
    [][\A n \in DOMAIN files :
          files[n].st = "whole" => (n \in DOMAIN files' /\ files'[n] = files[n])]_vars

\* The step is the Processor's auto-save block
DumpStep == proc_pc = "autosave" /\ proc_pc' = "recv"
\* After the step, the session file named by the current second holds
\* exactly the buffer the step found
SessionWritten ==
    LET n == TimestampSecs(now)
    IN  /\ n \in DOMAIN files'
        /\ files'[n].st = "whole"
        /\ files'[n].session.payload = buffer

\* C6: a stop that saves its session leaves a file whose payload is the
\* buffer as the Finalizer found it and whose signature is
\* hex(digest(serialize(payload) || SALT)) of that payload.
C6_SignedPayload ==
    [][(StopStep /\ stop_outcome' = "ok") =>
          /\ buffer # <<>>
          /\ SessionWritten
          /\ LET session == files'[TimestampSecs(now)].session
             IN  /\ \E bytes \in {ToJsonString(session.payload) \o SALT} :
                       session.signature = HexEncode(Sha256(bytes))
                 /\ session.header = [version |-> "1.0", algorithm |-> "HMAC-SHA256"]]_vars

\* A stop has just saved a session of two records.
C6_Witness ==
    /\ ui_pc = "lock2"
    /\ stop_outcome = "ok"
    /\ \E n \in WholeFiles : Len(files[n].session.payload) >= 2

\* C7: a stop that finds the buffer empty creates or changes no file, shows
\* no error dialog, and ends with the buffer empty and the flag false.
C7_StopWhileEmpty ==
    [][/\ (StopStep /\ buffer = <<>>) =>
             (files' = files /\ ui_pc' = "lock2" /\ ~is_recording')
       /\ (StopEndStep /\ stop_outcome = "skipped") =>
             (files' = files /\ buffer' = <<>> /\ ~is_recording')]_vars

\* A stop found the buffer empty; no file exists.
C7_Witness ==
    /\ ui_pc = "lock2"
    /\ stop_outcome = "skipped"
    /\ DOMAIN files = {}
    /\ nextId > 0

\* C8: a stop that finds records in the buffer and does not write them to
\* its session file shows the error dialog.
C8_FailureSurfaced ==
    [][(StopStep /\ buffer # <<>> /\ ~SessionWritten) => ui_pc' = "dialog"]_vars

\* C9: when the stop handler ends the buffer is empty, whatever the save
\* attempt did.
C9_BufferEmptyAfterStop ==
    [][StopEndStep => buffer' = <<>>]_vars

\* A stop whose save failed part-way has ended: its records are in no file
\* and the buffer is empty.
C9_Witness ==
    /\ ui_pc = "idle"
    /\ buffer = <<>>
    /\ chan = <<>>
    /\ proc_pc = "recv"
    /\ nextId > 0
    /\ WholeFiles = {}
    /\ \E n \in DOMAIN files : files[n].st = "partial"

C11_AutoSaveKeepsBuffer ==
    [][/\ (proc_pc = "autosave" /\ proc_pc' # "autosave") =>
             (buffer' = buffer /\ proc_pc' = "recv")
       /\ (\E i \in DOMAIN buffer : buffer[i].id \notin Ids(buffer')) =>
             StopEndStep]_vars

\* An auto-save has just failed after truncating the snapshot; the records
\* are still in the buffer.
C11_Witness ==
    /\ dump_result = "write_err"
    /\ tmp.st = "partial"
    /\ Len(buffer) >= 2
    /\ proc_pc = "recv"

\* C13: the Processor flushes at BATCH_SIZE records or at 5 s on the loop's
\* timer: an iteration that ends with records still in the buffer has fewer
\* than BATCH_SIZE of them, and ran with less than 5 s on the timer.
C13_FlushOnBatchOrTimeout ==
    [][(/\ proc_pc \in {"push", "autosave"}
        /\ proc_pc' = "recv"
        /\ buffer' # <<>>) =>
          /\ Len(buffer') < BATCH_SIZE
          /\ now - last_auto_save < 5 * MillisPerSec]_vars

\* C14: the flag is false initially; the status text reads "Recording"
\* exactly when the flag is true (the text is set by the start and stop
\* handlers only, so it tells which of them ran last); the stop handler leaves
\* the flag false; and a step that changes the flag is a step of the UI
\* thread: it touches nothing the Sensor or the Processor writes.
C14_FlagFollowsCommands ==
    /\ ~is_recording
    /\ [](is_recording <=> status = "Status: Recording")
    /\ [][/\ StopStep => (~is_recording' /\ status' = "Status: Idle")
          /\ is_recording' # is_recording =>
                /\ ui_pc = "idle"
                /\ <<chan, nextId, origin, due, last_event>>' =
                      <<chan, nextId, origin, due, last_event>>
                /\ <<proc_pc, event, buffer, last_auto_save, tmp, dump_result>>' =
                      <<proc_pc, event, buffer, last_auto_save, tmp, dump_result>>]_vars

\* Recording is on again after a stop that saved a session.
C14_Witness ==
    /\ is_recording
    /\ status = "Status: Recording"
    /\ ui_pc = "idle"
    /\ WholeFiles # {}

\* C15: from the Finalizer's read of the buffer to the handler's clear no
\* other step changes the buffer: what the clear removes is what the save
\* was given.
C15_DrainAndClearAtomic ==
    [][(ui_pc # "idle" /\ buffer' # buffer) => StopEndStep]_vars

\* C16: the UI thread does not hold the buffer lock while the error dialog
\* is displayed.
C16_NoLockAcrossDialog == ui_pc = "dialog" => lock = "free"

\* C18: a stop handled when no recording interval is open (the flag is
\* already false, so every record there is was captured before an earlier
\* stop) writes no session from the buffer.
C18_OneIntervalPerFile ==
    [][(StopStep /\ ~is_recording) => ~(buffer # <<>> /\ SessionWritten)]_vars

\* C19: an iteration that receives a timestamp builds one LogEvent with that
\* timestamp, event_type "keypress" and a window title or "Unknown", and
\* appends exactly it at the end of the buffer; an iteration that times out
\* leaves the buffer as it was.
C19_OneEventPerReceive ==
    [][/\ (proc_pc = "recv" /\ proc_pc' = "push") =>
             /\ chan # <<>>
             /\ chan' = Tail(chan)
             /\ event'.timestamp = Head(chan).ts
             /\ event'.event_type = "keypress"
             /\ event'.window_title \in Titles \cup {"Unknown"}
             /\ buffer' = buffer
       /\ (proc_pc = "push" /\ proc_pc' # "push") =>
             /\ Len(buffer') = Len(buffer) + 1
             /\ buffer' = buffer \o <<event>>
       /\ (/\ proc_pc = "recv"
           /\ proc_pc' # "push"
           /\ (proc_pc' # proc_pc \/ dump_result' # dump_result)) =>
             (chan = <<>> /\ chan' = chan /\ buffer' = buffer)]_vars

\* The buffer holds a record with a resolved title and one with the sentinel.
C19_Witness ==
    /\ Len(buffer) >= 2
    /\ \E i, j \in DOMAIN buffer :
          /\ i < j
          /\ buffer[i].window_title = "Unknown"
          /\ buffer[j].window_title \in Titles
    /\ proc_pc = "recv"

\* C20: no record is in a session file twice, nor in two session files.
C20_PersistedOnce ==
    /\ \A n \in WholeFiles : \A i, j \in DOMAIN files[n].session.payload :
          i # j => files[n].session.payload[i].id # files[n].session.payload[j].id
    /\ \A n, m \in WholeFiles :
          n # m => Ids(files[n].session.payload) \cap Ids(files[m].session.payload) = {}

\* Two stops, in different seconds, have each saved a session.
C20_Witness ==
    \E n, m \in WholeFiles :
        /\ n # m
        /\ files[n].session.payload # <<>>
        /\ files[m].session.payload # <<>>

\* The ids of the records in a session file or in the temp snapshot
PersistedIds ==
    UNION {Ids(files[n].session.payload) : n \in WholeFiles}
      \cup (IF tmp.st = "whole" THEN Ids(tmp.data) ELSE {})

\* C12: when the Processor has exited on a disconnected channel, every record
\* in the buffer has been persisted.
C12_FinalFlushOnDisconnect ==
    proc_pc = "exited" => Ids(buffer) \subseteq PersistedIds

\* C17: once the Sensor thread has ended, the channel has no Sender left, so
\* that the Processor's next recv_timeout on the empty channel is Disconnected.
C17_SensorDeathDisconnects ==
    ~sensor_alive => Senders = 0

====
